---- MODULE Spec2Model ----
(***************************************************************************)
(* FHIRTogether: the SQLite store's slot-hold manager and the HL7 SIU      *)
(* route, modelled as state machines.                                      *)
(*                                                                         *)
(* Time is kept in milliseconds since an epoch base that is a whole        *)
(* second; toNaiveISO keeps whole seconds only, and the naive ISO strings  *)
(* the store compares (same year width) order as those second counts do.   *)
(***************************************************************************)
EXTENDS Integers, Sequences, FiniteSets, TLC

VARIABLES clock, schedules, slots, appointments, slot_holds, hl7_message_log,
          nextId, result, pc, local

vars == <<clock, schedules, slots, appointments, slot_holds, hl7_message_log,
          nextId, result, pc, local>>

(***************************************************************************)
(* Bounds of the model                                                     *)
(***************************************************************************)
MaxSeconds == 1          \* the clock runs from 0 to MaxSeconds seconds
MaxHolds == 2            \* hold rows inserted in one behaviour
MaxAppts == 2            \* appointment rows inserted in one behaviour
MaxLogs == 2             \* message-log rows inserted in one behaviour
MaxLen == 3              \* bytes of a message handed to the MLLP framer

MsPerSecond == 1000

SlotIds == {101, 102}
Sessions == {"A", "B"}
\* the store tells "free" from every other status and nothing more; two of the
\* other statuses stand for them
SlotStatuses == {"free", "busy", "entered-in-error"}
\* durationMinutes * 60 * 1000, for durationMinutes that are negative, zero,
\* below one second, and whole seconds
Durations == {-1000, 0, 500, 1000, 2000}
\* the clock moves in steps of half a second
ClockSteps == {500}
\* tokens a caller may present to releaseHold: every token the store can have
\* issued, and one it never issues
Tokens == 1..(MaxHolds + 1)

NoCall == [op |-> "none"]

\* durations that outlast the model's clock: a hold made with one of them does
\* not expire while two calls race
LongDurations == {(MaxSeconds + 1) * MsPerSecond, (MaxSeconds + 2) * MsPerSecond}

\* the locals of a holdSlot call that has not started
IdleLocal == [slotId |-> 0, durationMs |-> 0, slot |-> {}, existingHold |-> {},
              outcome |-> "none", hold |-> {}]

(***************************************************************************)
(* Pure helpers of the store                                               *)
(***************************************************************************)
\* toNaiveISO: the wall-clock time cut to whole seconds
toNaiveISO(ms) == ms \div MsPerSecond

\* getSlotById: the rows of slots with that id (zero or one, id is the key)
getSlotById(tbl, id) == {s \in tbl : s.id = id}

\* the availability test taking only "busy" for unavailable
SlotIsFree_NotBusy(slot) == \A s \in slot : s.status # "busy"

\* the availability test letting every status through
SlotIsFree_Always(slot) == TRUE

\* slot.status !== 'free' is what makes holdSlot refuse
SlotIsFree(slot) == \A s \in slot : s.status = "free"

\* the sweep deleting every row
CleanupRows_All(holds, now) == {}

\* the sweep deleting no row
CleanupRows_None(holds, now) == holds

\* DELETE FROM slot_holds WHERE expires_at <= now
CleanupRows(holds, now) == {h \in holds : ~(h.expiresAt <= now)}

\* the comparison of the active-hold query turned around
ActiveRows_Inverted(holds, slotId, now) == {h \in holds : h.slotId = slotId /\ h.expiresAt < now}

\* the active-hold query letting the boundary second through
ActiveRows_Inclusive(holds, slotId, now) == {h \in holds : h.slotId = slotId /\ h.expiresAt >= now}

\* SELECT * FROM slot_holds WHERE slot_id = ? AND expires_at > ?
ActiveRows(holds, slotId, now) == {h \in holds : h.slotId = slotId /\ h.expiresAt > now}

\* .get() returns the first row of the result: the scan of the slot_id index
\* yields rows in rowid (insertion) order, and ids are issued in that order
FirstRow(rows) == {h \in rows : \A g \in rows : h.id <= g.id}

getActiveHold(holds, slotId, nowMs) == FirstRow(ActiveRows(holds, slotId, toNaiveISO(nowMs)))

\* the release keeping the named row and deleting the others
ReleaseRows_Others(holds, token) == {h \in holds : h.holdToken = token}

\* DELETE FROM slot_holds WHERE hold_token = ?
ReleaseRows(holds, token) == {h \in holds : h.holdToken # token}

\* the extension keyed on the slot id, which no hold id equals
ExtendRows_WrongKey(holds, id, newExpiry) ==
  {IF h.slotId = id THEN [h EXCEPT !.expiresAt = newExpiry] ELSE h : h \in holds}

\* the UPDATE writing an expiry one second short of the one computed
ExtendRows_Short(holds, id, newExpiry) ==
  {IF h.id = id THEN [h EXCEPT !.expiresAt = newExpiry - 1] ELSE h : h \in holds}

\* UPDATE slot_holds SET expires_at = ? WHERE id = ?
ExtendRows(holds, id, newExpiry) ==
  {IF h.id = id THEN [h EXCEPT !.expiresAt = newExpiry] ELSE h : h \in holds}

\* what a holdSlot call gave back: the hold it returned, or the error it threw
HoldReturned(slotId, sessionId, durationMs, outcome, hold) ==
  [op |-> "hold", slotId |-> slotId, sessionId |-> sessionId,
   durationMs |-> durationMs, outcome |-> outcome, hold |-> hold]

HoldThrew(slotId, sessionId, outcome) ==
  [op |-> "hold", slotId |-> slotId, sessionId |-> sessionId, outcome |-> outcome]

\* the row holdSlot inserts: a fresh id and token, expiry = now + duration
NewHold(slotId, sessionId, durationMs, nowMs, n) ==
  [id |-> n, slotId |-> slotId, holdToken |-> n, sessionId |-> sessionId,
   expiresAt |-> toNaiveISO(nowMs + durationMs), createdAt |-> toNaiveISO(nowMs)]

(***************************************************************************)
(* The clock                                                               *)
(***************************************************************************)
Tick ==
  /\ \E d \in ClockSteps :
       /\ clock + d <= MaxSeconds * MsPerSecond
       /\ clock' = clock + d
  /\ result' = NoCall
  /\ UNCHANGED <<schedules, slots, appointments, slot_holds, nextId, pc, local, hl7_message_log>>

(***************************************************************************)
(* Slot operations of the store                                            *)
(***************************************************************************)
\* createSlot with a caller-given id; the INSERT fails on a duplicate id
\* (primary key) and on a schedule that does not exist (foreign key)
CreateSlot(id, status, scheduleId) ==
  /\ getSlotById(slots, id) = {}
  /\ \E i \in 1..Len(schedules) : schedules[i].id = scheduleId
  /\ slots' = slots \cup {[id |-> id, schedule_id |-> scheduleId, status |-> status,
                           start |-> 1, end |-> 2]}
  /\ result' = NoCall
  /\ UNCHANGED <<clock, schedules, appointments, slot_holds, nextId, pc, local, hl7_message_log>>

\* updateSlot(id, {status}): throws when the slot is absent
UpdateSlotRows(tbl, id, status) ==
  {IF s.id = id THEN [s EXCEPT !.status = status] ELSE s : s \in tbl}

UpdateSlot(id, status) ==
  /\ getSlotById(slots, id) # {}
  /\ slots' = UpdateSlotRows(slots, id, status)
  /\ result' = NoCall
  /\ UNCHANGED <<clock, schedules, appointments, slot_holds, nextId, pc, local, hl7_message_log>>

\* deleteSlot: the slot_holds rows of the slot go with it (ON DELETE CASCADE)
DeleteSlot(id) ==
  /\ getSlotById(slots, id) # {}
  /\ slots' = {s \in slots : s.id # id}
  /\ slot_holds' = {h \in slot_holds : h.slotId # id}
  /\ result' = NoCall
  /\ UNCHANGED <<clock, schedules, appointments, nextId, pc, local, hl7_message_log>>

(***************************************************************************)
(* Slot-hold operations, each call running alone from start to end         *)
(***************************************************************************)
HoldSlot(slotId, sessionId, durationMs) ==
  LET swept == CleanupRows(slot_holds, toNaiveISO(clock))
      slot == getSlotById(slots, slotId)
      existing == getActiveHold(swept, slotId, clock)
      newExpiry == toNaiveISO(clock + durationMs)
      created == NewHold(slotId, sessionId, durationMs, clock, nextId)
  IN
  /\ IF slot = {}
       THEN /\ slot_holds' = swept
            /\ result' = HoldThrew(slotId, sessionId, "NotFound")
            /\ UNCHANGED nextId
     ELSE IF ~SlotIsFree(slot)
       THEN /\ slot_holds' = swept
            /\ result' = HoldThrew(slotId, sessionId, "SlotUnavailable")
            /\ UNCHANGED nextId
     ELSE IF existing # {}
       THEN IF \E h \in existing : h.sessionId = sessionId
              THEN /\ slot_holds' = ExtendRows(swept, (CHOOSE h \in existing : TRUE).id, newExpiry)
                   /\ result' = HoldReturned(slotId, sessionId, durationMs, "extended",
                                  {[h EXCEPT !.expiresAt = newExpiry] : h \in existing})
                   /\ UNCHANGED nextId
              ELSE /\ slot_holds' = swept
                   /\ result' = HoldThrew(slotId, sessionId, "HoldConflict")
                   /\ UNCHANGED nextId
     ELSE /\ nextId <= MaxHolds
          /\ slot_holds' = swept \cup {created}
          /\ result' = HoldReturned(slotId, sessionId, durationMs, "created", {created})
          /\ nextId' = nextId + 1
  /\ UNCHANGED <<clock, schedules, slots, appointments, pc, local, hl7_message_log>>

ReleaseHold(token) ==
  /\ slot_holds' = ReleaseRows(slot_holds, token)
  /\ result' = [op |-> "release", token |-> token, outcome |-> "ok"]
  /\ UNCHANGED <<clock, schedules, slots, appointments, nextId, pc, local, hl7_message_log>>

GetActiveHold(slotId) ==
  /\ result' = [op |-> "activeHold", slotId |-> slotId,
                hold |-> getActiveHold(slot_holds, slotId, clock)]
  /\ UNCHANGED <<clock, schedules, slots, appointments, slot_holds, nextId, pc, local, hl7_message_log>>

CleanupExpiredHolds ==
  /\ slot_holds' = CleanupRows(slot_holds, toNaiveISO(clock))
  /\ result' = [op |-> "sweep",
                changes |-> Cardinality(slot_holds) - Cardinality(CleanupRows(slot_holds, toNaiveISO(clock)))]
  /\ UNCHANGED <<clock, schedules, slots, appointments, nextId, pc, local, hl7_message_log>>

\* a schedule for the slots to hang on
TheSchedule == [id |-> <<"1">>, actor |-> <<"1">>]

InitHold ==
  /\ clock = 0
  /\ schedules = <<TheSchedule>>
  /\ slots = {}
  /\ appointments = {}
  /\ slot_holds = {}
  /\ hl7_message_log = {}
  /\ nextId = 1
  /\ result = NoCall
  /\ pc = [p \in Sessions |-> "idle"]
  /\ local = [p \in Sessions |-> IdleLocal]

NextHold ==
  \/ Tick
  \/ \E id \in SlotIds, st \in SlotStatuses : CreateSlot(id, st, TheSchedule.id)
  \/ \E id \in SlotIds, st \in SlotStatuses : UpdateSlot(id, st)
  \/ \E id \in SlotIds : DeleteSlot(id)
  \/ \E id \in SlotIds, s \in Sessions, d \in Durations : HoldSlot(id, s, d)
  \/ \E t \in Tokens : ReleaseHold(t)
  \/ \E id \in SlotIds : GetActiveHold(id)
  \/ CleanupExpiredHolds

SpecHold == InitHold /\ [][NextHold]_vars

(***************************************************************************)
(* holdSlot as it runs among other calls: one step per stretch of code     *)
(* between two awaits.  Session p's call is process p.                     *)
(***************************************************************************)
\* line 674: the sweep runs, then the call waits on its result
HoldStart(p, slotId, durationMs) ==
  /\ pc[p] = "idle"
  /\ slot_holds' = CleanupRows(slot_holds, toNaiveISO(clock))
  /\ local' = [local EXCEPT ![p] = [IdleLocal EXCEPT !.slotId = slotId, !.durationMs = durationMs]]
  /\ pc' = [pc EXCEPT ![p] = "getSlot"]
  /\ UNCHANGED <<clock, schedules, slots, appointments, nextId, result, hl7_message_log>>

\* line 677: the slot is read, then the call waits on the row
HoldReadSlot(p) ==
  /\ pc[p] = "getSlot"
  /\ local' = [local EXCEPT ![p].slot = getSlotById(slots, local[p].slotId)]
  /\ pc' = [pc EXCEPT ![p] = "getActive"]
  /\ UNCHANGED <<clock, schedules, slots, appointments, slot_holds, nextId, result, hl7_message_log>>

\* lines 678-686: the two throws on the slot read, else the active hold is
\* read and the call waits on it
HoldReadActive(p) ==
  /\ pc[p] = "getActive"
  /\ IF local[p].slot = {}
       THEN /\ local' = [local EXCEPT ![p].outcome = "NotFound"]
            /\ pc' = [pc EXCEPT ![p] = "done"]
     ELSE IF ~SlotIsFree(local[p].slot)
       THEN /\ local' = [local EXCEPT ![p].outcome = "SlotUnavailable"]
            /\ pc' = [pc EXCEPT ![p] = "done"]
     ELSE /\ local' = [local EXCEPT ![p].existingHold = getActiveHold(slot_holds, local[p].slotId, clock)]
          /\ pc' = [pc EXCEPT ![p] = "write"]
  /\ UNCHANGED <<clock, schedules, slots, appointments, slot_holds, nextId, result, hl7_message_log>>

\* lines 687-717: extend, refuse, or insert, on what was read before the wait.
\* The INSERT fails when the slot row is gone by now (foreign key).
HoldWrite(p) ==
  LET l == local[p]
      newExpiry == toNaiveISO(clock + l.durationMs)
      created == NewHold(l.slotId, p, l.durationMs, clock, nextId)
  IN
  /\ pc[p] = "write"
  /\ IF l.existingHold # {}
       THEN IF \E h \in l.existingHold : h.sessionId = p
              THEN /\ slot_holds' = ExtendRows(slot_holds, (CHOOSE h \in l.existingHold : TRUE).id, newExpiry)
                   /\ local' = [local EXCEPT ![p].outcome = "extended",
                                             ![p].hold = {[h EXCEPT !.expiresAt = newExpiry] : h \in l.existingHold}]
                   /\ UNCHANGED nextId
              ELSE /\ local' = [local EXCEPT ![p].outcome = "HoldConflict"]
                   /\ UNCHANGED <<slot_holds, nextId>>
     ELSE IF getSlotById(slots, l.slotId) = {}
       THEN /\ local' = [local EXCEPT ![p].outcome = "StoreError"]
            /\ UNCHANGED <<slot_holds, nextId>>
     ELSE /\ nextId <= MaxHolds
          /\ slot_holds' = slot_holds \cup {created}
          /\ local' = [local EXCEPT ![p].outcome = "created", ![p].hold = {created}]
          /\ nextId' = nextId + 1
  /\ pc' = [pc EXCEPT ![p] = "done"]
  /\ UNCHANGED <<clock, schedules, slots, appointments, result, hl7_message_log>>

\* one free Slot, and every session about to call holdSlot once
InitRace ==
  /\ clock = 0
  /\ schedules = <<TheSchedule>>
  /\ slots = {[id |-> 101, schedule_id |-> TheSchedule.id, status |-> "free", start |-> 1, end |-> 2]}
  /\ appointments = {}
  /\ slot_holds = {}
  /\ hl7_message_log = {}
  /\ nextId = 1
  /\ result = NoCall
  /\ pc = [p \in Sessions |-> "idle"]
  /\ local = [p \in Sessions |-> IdleLocal]

NextRace ==
  \/ Tick
  \/ \E p \in Sessions, id \in SlotIds, d \in LongDurations : HoldStart(p, id, d)
  \/ \E p \in Sessions : HoldReadSlot(p)
  \/ \E p \in Sessions : HoldReadActive(p)
  \/ \E p \in Sessions : HoldWrite(p)

SpecRace == InitRace /\ [][NextRace]_vars

(***************************************************************************)
(* POST /hl7/siu.  An inbound message is the record of what the parser     *)
(* finds in it; identifiers are sequences of characters, so that the       *)
(* store's LIKE filters can be computed on the stored JSON text.           *)
(***************************************************************************)
PlacerIds == {<<"1">>, <<"1", "2">>}
Actors == {<<"1">>, <<"1", "2">>}
Starts == {1, 2}
SupportedTriggers == {"S12", "S13", "S14", "S15", "S17", "S26"}

SIUMessage(trigger, controlId, placerId, actor, start, end) ==
  [hasMSH |-> TRUE, messageType |-> "SIU", triggerEvent |-> trigger, controlId |-> controlId,
   hasSCH |-> TRUE, placerId |-> placerId, actor |-> actor, start |-> start, end |-> end]

\* well-formed SIU messages of supported trigger events
ValidMessages ==
  {SIUMessage(t, "MSG1", p, a, st, st + 1) :
     t \in {"S12", "S15"}, p \in PlacerIds, a \in Actors, st \in Starts}

\* a message without header segment, one of another type, an SIU message
\* without scheduling segment, and one of an unsupported trigger event
NoHeaderMessage ==
  [SIUMessage("S12", "MSG1", <<"1">>, <<"1">>, 1, 2) EXCEPT !.hasMSH = FALSE]

OtherTypeMessage ==
  [SIUMessage("O01", "MSG2", <<"1">>, <<"1">>, 1, 2) EXCEPT !.messageType = "ORM", !.hasSCH = FALSE]

NoSCHMessage ==
  [SIUMessage("S12", "MSG3", <<"1">>, <<"1">>, 1, 2) EXCEPT !.hasSCH = FALSE]

UnsupportedTriggerMessage == SIUMessage("S99", "MSG4", <<"1">>, <<"1">>, 1, 2)

Messages ==
  ValidMessages \cup {NoHeaderMessage, OtherTypeMessage, NoSCHMessage, UnsupportedTriggerMessage}

\* parseRawMessage: fails when the message has no header segment
ParseRawThrows(m) == ~m.hasMSH

parseRawMessage(m) ==
  [messageType |-> m.messageType, triggerEvent |-> m.triggerEvent, controlId |-> m.controlId]

\* parseSIUMessage and siuToFhirResources: fail on a message without
\* scheduling segment and on a trigger event outside the supported set
ParseSIUThrows(m) == ~m.hasSCH \/ m.triggerEvent \notin SupportedTriggers

\* the trigger event's target Appointment status, and whether a Slot draft is made
TargetStatus(trigger) ==
  IF trigger \in {"S15", "S17"} THEN "cancelled"
  ELSE IF trigger = "S26" THEN "noshow"
  ELSE "booked"

MakesSlot(trigger) == trigger \in {"S12", "S13"}

\* siuToFhirResources: the three drafts.  The schedule draft's id is
\* "schedule-" followed by the actor's id; the model keeps the part after it.
siuToFhirResources(m) ==
  [schedule |-> [id |-> m.actor, actor |-> m.actor],
   slot |-> IF MakesSlot(m.triggerEvent)
              THEN {[status |-> "busy", start |-> m.start, end |-> m.end]}
              ELSE {},
   appointment |-> [status |-> TargetStatus(m.triggerEvent), identifier |-> m.placerId,
                    start |-> m.start, end |-> m.end, participant |-> m.actor, slot |-> <<>>]]

\* LIKE '%pattern%' on a text: the pattern occurs somewhere in it (the
\* characters modelled are neither wildcards nor letters)
Like(pattern, text) ==
  \E i \in 0..(Len(text) - Len(pattern)) : SubSeq(text, i + 1, i + Len(pattern)) = pattern

\* JSON.stringify of the actor and identifier columns
ActorJson(actor) == <<"[", "Practitioner/">> \o actor \o <<"]">>

IdentifierJson(identifier) == IF identifier = <<>> THEN <<"null">> ELSE <<"[">> \o identifier \o <<"]">>

\* getSchedules({actor}): rows whose actor text contains the reference, in
\* rowid order
getSchedules(tbl, actorRef) ==
  SelectSeq(tbl, LAMBDA r : Like(actorRef, ActorJson(r.actor)))

\* the dedup lookup matching the identifier exactly
MatchingAppointments_Exact(tbl, identifier) ==
  {a \in tbl : a.identifier = identifier}

\* getAppointments({identifier}): rows whose identifier text contains it
MatchingAppointments(tbl, identifier) ==
  {a \in tbl : Like(identifier, IdentifierJson(a.identifier))}

\* ORDER BY start ASC LIMIT 1, rows of equal start in rowid order
findAppointmentByPlacerId(tbl, placerApptId) ==
  LET matches == MatchingAppointments(tbl, placerApptId)
  IN {a \in matches :
        \A b \in matches : a.start < b.start \/ (a.start = b.start /\ a.id <= b.id)}

getAppointmentById(tbl, id) == {a \in tbl : a.id = id}

\* updateAppointment: the columns its UPDATE writes, taken from the draft
UpdateAppointmentRows(tbl, id, draft) ==
  {IF a.id = id
     THEN [a EXCEPT !.status = draft.status, !.start = draft.start, !.end = draft.end,
                    !.participant = draft.participant, !.identifier = draft.identifier]
     ELSE a : a \in tbl}

\* createAppointment of a draft without id: a row under a generated id
NewAppointment(draft, n) ==
  [id |-> n, status |-> draft.status, identifier |-> draft.identifier, start |-> draft.start,
   end |-> draft.end, participant |-> draft.participant, slot |-> draft.slot]

\* the acknowledgement sent with its HTTP status; text is its free-text
\* diagnostic (for an error caught, the error's own message)
Ack(status, ackCode, controlId, errCode, text) ==
  [status |-> status, ackCode |-> ackCode, controlId |-> controlId, errCode |-> errCode,
   text |-> text]

\* a request and the response it was given
Exchange(m, ack) == [op |-> "siu", request |-> m, ack |-> ack]

\* the parse-error branch answering as if the message had been processed
ParseErrorAck_Accepted == Ack(200, "AA", "UNKNOWN", "none", "parse error")

\* the parse-error branch answering with an application error
ParseErrorAck_AE == Ack(400, "AE", "UNKNOWN", "100", "parse error")

\* lines 239-263: the parse-error branch
ParseErrorAck == Ack(400, "AR", "UNKNOWN", "100", "parse error")

\* the non-SIU branch sending its acknowledgement with status 500
UnsupportedTypeAck_500(parsed) ==
  Ack(500, "AE", IF parsed.controlId = "" THEN "UNKNOWN" ELSE parsed.controlId, "200",
      "unsupported message type")

\* lines 140-165: a message type other than SIU
UnsupportedTypeAck(parsed) ==
  Ack(400, "AE", IF parsed.controlId = "" THEN "UNKNOWN" ELSE parsed.controlId, "200",
      "unsupported message type")

\* line 213: the success acknowledgement built from the message's own header
AcceptAck(m) == Ack(200, "AA", m.controlId, "none", "processed")

\* the store calls the handler makes, and the message of the error one throws
StoreCalls ==
  {"getSchedules", "createSchedule", "getAppointments", "getAppointmentById",
   "updateAppointment", "createAppointment", "createSlot"}

StoreErrorMessage(call) == call

\* the store-error branch answering with the enhanced-mode code CE
StoreErrorAck_CE(m, call) == Ack(500, "CE", m.controlId, "207", StoreErrorMessage(call))

\* the store-error branch answering Rejected
StoreErrorAck_AR(m, call) == Ack(400, "AR", m.controlId, "207", StoreErrorMessage(call))

\* lines 221-236: the store-error branch, built from the message's own header
StoreErrorAck(m, call) == Ack(500, "AE", m.controlId, "207", StoreErrorMessage(call))

(***************************************************************************)
(* MLLP framing (wrapMLLP of ../hl7/parser, and its inverse)               *)
(***************************************************************************)
SB == 11   \* start of block, 0x0B
EB == 28   \* end of block, 0x1C
CR == 13   \* carriage return, 0x0D

\* the bytes a message may be made of: the three control bytes and a letter
Bytes == {SB, EB, CR, 77}

ByteStrings == UNION {[1..n -> Bytes] : n \in 0..MaxLen}

\* a valid message holds no block marker; CR ends each of its segments
ValidMessage(m) == \A i \in 1..Len(m) : m[i] \notin {SB, EB}

FramingError == [error |-> "FramingError"]

frame_NoCR(m) == <<SB>> \o m \o <<EB>>

\* one start byte before the message, the two end bytes after it
frame(m) == <<SB>> \o m \o <<EB, CR>>

\* position of the first start byte, 0 when there is none
StartIndex(b) ==
  IF \E i \in 1..Len(b) : b[i] = SB
    THEN CHOOSE i \in 1..Len(b) : b[i] = SB /\ \A j \in 1..(i - 1) : b[j] # SB
    ELSE 0

EndsAt(b, i) == i < Len(b) /\ b[i] = EB /\ b[i + 1] = CR

\* position of the first end sequence, 0 when there is none
EndIndex(b) ==
  IF \E i \in 1..Len(b) : EndsAt(b, i)
    THEN CHOOSE i \in 1..Len(b) : EndsAt(b, i) /\ \A j \in 1..(i - 1) : ~EndsAt(b, j)
    ELSE 0

\* the bytes between the markers; FramingError when a marker is missing or the
\* end comes before the start
unframe(b) ==
  IF StartIndex(b) = 0 \/ EndIndex(b) = 0 \/ EndIndex(b) < StartIndex(b)
    THEN FramingError
    ELSE [message |-> SubSeq(b, StartIndex(b) + 1, EndIndex(b) - 1)]

\* the sender frames a message for the socket
Frame(m) ==
  /\ result.op # "frame"
  /\ result' = [op |-> "frame", message |-> m, bytes |-> frame(m)]
  /\ UNCHANGED <<clock, schedules, slots, appointments, slot_holds, hl7_message_log,
                 nextId, pc, local>>

\* the receiver unframes what the sender put on the socket
Unframe ==
  /\ result.op = "frame"
  /\ result' = [op |-> "unframe", message |-> result.message, bytes |-> result.bytes,
                out |-> unframe(result.bytes)]
  /\ UNCHANGED <<clock, schedules, slots, appointments, slot_holds, hl7_message_log,
                 nextId, pc, local>>

InitMLLP ==
  /\ clock = 0
  /\ schedules = <<>>
  /\ slots = {}
  /\ appointments = {}
  /\ slot_holds = {}
  /\ hl7_message_log = {}
  /\ nextId = 1
  /\ result = NoCall
  /\ pc = [p \in Sessions |-> "idle"]
  /\ local = [p \in Sessions |-> IdleLocal]

NextMLLP ==
  \/ \E m \in ByteStrings : Frame(m)
  \/ Unframe

SpecMLLP == InitMLLP /\ [][NextMLLP]_vars

(***************************************************************************)
(* The two routes as HTTP sees them: request envelope, status, content     *)
(* type and body of the response                                           *)
(***************************************************************************)
HttpMessages ==
  {SIUMessage(t, "MSG1", p, <<"1">>, 1, 2) : t \in {"S12", "S15"}, p \in PlacerIds}
    \cup {NoHeaderMessage, OtherTypeMessage, NoSCHMessage}

\* the body of a request to /hl7/siu: a string, or the JSON envelope
\* { message, wrapMLLP? }
SiuRequests ==
  {r \in [json : BOOLEAN, wrapMLLP : BOOLEAN, message : HttpMessages] :
     r.wrapMLLP => r.json}

\* the body of a request to /hl7/raw with its content type
RawRequests == [contentType : {"hl7", "json"}, message : HttpMessages]

AckCodeByte(code) ==
  CASE code = "AA" -> 65
    [] code = "AE" -> 69
    [] code = "AR" -> 82
    [] OTHER -> 67

\* the acknowledgement as text: a header letter, the code, a segment end
buildACKMessage(ack) == <<77, AckCodeByte(ack.ackCode), CR>>

wrapMLLP(text) == frame(text)

\* reading a field a JSON object does not have gives undefined, and
\* reply.send(undefined) sends an empty body
Undefined == <<>>

JsonField(obj, key) == IF key \in DOMAIN obj THEN obj[key] ELSE Undefined

\* lines 104-115
sendAck(isJsonRequest, ackMessage, status) ==
  IF isJsonRequest
    THEN [status |-> status, contentType |-> "application/json",
          body |-> [message |-> ackMessage]]
    ELSE [status |-> status, contentType |-> "x-application/hl7-v2+er7",
          body |-> ackMessage]

\* wrapResponse is set from the envelope inside the try block (lines 120-127);
\* the catch block of parse errors does not see it and never frames
Wraps(req, branch) == branch # "parse" /\ req.json /\ req.wrapMLLP

\* what /hl7/siu sends for the acknowledgement a branch built
SiuResponse(req, ack, branch) ==
  sendAck(req.json,
          IF Wraps(req, branch) THEN wrapMLLP(buildACKMessage(ack)) ELSE buildACKMessage(ack),
          ack.status)

HttpExchange(route, req, ack, branch, response) ==
  [op |-> "http", route |-> route, request |-> req, ack |-> ack, branch |-> branch,
   response |-> response]

\* the field of the SIU handler's JSON response that /hl7/raw sends on
\* (line 311: body.ack)
RawField == "ack"

\* lines 299-313: the request is injected into /hl7/siu as { message }, the
\* response body is parsed and one field of it is sent with the same status
Injected(m, ack, branch) ==
  LET res == SiuResponse([json |-> TRUE, wrapMLLP |-> FALSE, message |-> m], ack, branch)
  IN [status |-> res.status, contentType |-> "x-application/hl7-v2+er7",
      body |-> JsonField(res.body, RawField)]

\* what a request is answered with.  A context names the route the request
\* came by and the request; "direct" is a request seen by its message and its
\* acknowledgement alone
Reply(ctx, ack, branch) ==
  IF ctx.route = "direct" THEN Exchange(ctx.request, ack)
  ELSE IF ctx.route = "/hl7/siu"
    THEN HttpExchange(ctx.route, ctx.request, ack, branch, SiuResponse(ctx.request, ack, branch))
  ELSE HttpExchange(ctx.route, ctx.request, ack, branch,
                    Injected(ctx.request.message, ack, branch))

\* The handler, one request running alone from start to end.  ctx is the
\* context the response is built in; fails says that the store throws at the
\* handler's first call
SiuHandler(m, fails, ctx) ==
  /\ IF ParseRawThrows(m)
       THEN /\ result' = Reply(ctx, ParseErrorAck, "parse")
            /\ UNCHANGED <<schedules, slots, appointments, nextId>>
     ELSE IF parseRawMessage(m).messageType # "SIU"
       THEN /\ result' = Reply(ctx, UnsupportedTypeAck(parseRawMessage(m)), "type")
            /\ UNCHANGED <<schedules, slots, appointments, nextId>>
     ELSE IF ParseSIUThrows(m)
       THEN /\ result' = Reply(ctx, ParseErrorAck, "parse")
            /\ UNCHANGED <<schedules, slots, appointments, nextId>>
     ELSE IF fails
       THEN /\ result' = Reply(ctx, StoreErrorAck(m, "getSchedules"), "store")
            /\ UNCHANGED <<schedules, slots, appointments, nextId>>
     ELSE
       LET fhirResult == siuToFhirResources(m)
           existingSchedules == getSchedules(schedules, <<"Practitioner/">> \o fhirResult.schedule.id)
           scheduleId == IF Len(existingSchedules) = 0 THEN fhirResult.schedule.id
                         ELSE existingSchedules[1].id
           existingAppointment == IF m.placerId # <<>>
                                    THEN findAppointmentByPlacerId(appointments, m.placerId)
                                    ELSE {}
       IN
       /\ schedules' = IF Len(existingSchedules) = 0
                         THEN Append(schedules, fhirResult.schedule)
                         ELSE schedules
       /\ IF existingAppointment # {}
            THEN /\ appointments' = UpdateAppointmentRows(appointments,
                                      (CHOOSE a \in existingAppointment : TRUE).id,
                                      fhirResult.appointment)
                 /\ UNCHANGED <<slots, nextId>>
            ELSE /\ Cardinality(appointments) < MaxAppts
                 /\ appointments' = appointments \cup {NewAppointment(fhirResult.appointment, nextId)}
                 /\ slots' = slots \cup
                      {[id |-> nextId + 1, schedule_id |-> scheduleId, status |-> sl.status,
                        start |-> sl.start, end |-> sl.end] : sl \in fhirResult.slot}
                 /\ nextId' = nextId + 1 + Cardinality(fhirResult.slot)
       /\ result' = Reply(ctx, AcceptAck(m), "accepted")
  /\ UNCHANGED <<clock, slot_holds, pc, local, hl7_message_log>>

\* a request whose store calls all return
PostSIU(m) == SiuHandler(m, FALSE, [route |-> "direct", request |-> m])

InitSIU ==
  /\ clock = 0
  /\ schedules = <<>>
  /\ slots = {}
  /\ appointments = {}
  /\ slot_holds = {}
  /\ hl7_message_log = {}
  /\ nextId = 1
  /\ result = NoCall
  /\ pc = [p \in Sessions |-> "idle"]
  /\ local = [p \in Sessions |-> IdleLocal]

NextSIU == \E m \in Messages : PostSIU(m)

SpecSIU == InitSIU /\ [][NextSIU]_vars

(***************************************************************************)
(* The handler as it runs among other requests: one step per stretch of    *)
(* code between two awaits.  A store call runs its statement when it is    *)
(* called and the handler waits on its result, so each step ends with the  *)
(* one store call of its stretch.  That call may throw (fails).  Each      *)
(* process handles one request.                                            *)
(***************************************************************************)
\* the locals of a request that has not arrived
IdleRequest ==
  [request |-> {}, existingSchedules |-> <<>>, scheduleId |-> <<>>,
   existingAppointment |-> {}, failed |-> "none", ack |-> {}]

RequestOf(p) == CHOOSE m \in local[p].request : TRUE

\* the handler has sent its acknowledgement
Respond(p, l, ack) ==
  /\ local' = [local EXCEPT ![p] = [l EXCEPT !.ack = {ack}]]
  /\ pc' = [pc EXCEPT ![p] = "done"]

\* lines 221-236: a store call threw
RespondStoreError(p, call) ==
  Respond(p, [local[p] EXCEPT !.failed = call], StoreErrorAck(RequestOf(p), call))

\* lines 119-179: parse, convert, and call getSchedules
SiuStart(p, m, fails) ==
  /\ pc[p] = "idle"
  /\ IF ParseRawThrows(m)
       THEN Respond(p, [IdleRequest EXCEPT !.request = {m}], ParseErrorAck)
     ELSE IF parseRawMessage(m).messageType # "SIU"
       THEN Respond(p, [IdleRequest EXCEPT !.request = {m}],
                    UnsupportedTypeAck(parseRawMessage(m)))
     ELSE IF ParseSIUThrows(m)
       THEN Respond(p, [IdleRequest EXCEPT !.request = {m}], ParseErrorAck)
     ELSE IF fails
       THEN Respond(p, [IdleRequest EXCEPT !.request = {m}, !.failed = "getSchedules"],
                    StoreErrorAck(m, "getSchedules"))
     ELSE /\ local' = [local EXCEPT ![p] =
                         [IdleRequest EXCEPT
                            !.request = {m},
                            !.existingSchedules =
                               getSchedules(schedules,
                                 <<"Practitioner/">> \o siuToFhirResources(m).schedule.id)]]
          /\ pc' = [pc EXCEPT ![p] = "resolve"]
  /\ UNCHANGED <<clock, schedules, slots, appointments, slot_holds, nextId, result, hl7_message_log>>

\* the schedules table taking a second row under an id it has
ScheduleIdTaken_Never(tbl, id) == FALSE

\* schedules.id is the PRIMARY KEY: createSchedule's INSERT fails on an id
\* that a row has
ScheduleIdTaken(tbl, id) == \E i \in 1..Len(tbl) : tbl[i].id = id

\* the dedup lookup of lines 190-193
LookedUp(p, l) ==
  /\ local' = [local EXCEPT ![p] =
                 [l EXCEPT !.existingAppointment =
                     IF RequestOf(p).placerId # <<>>
                       THEN findAppointmentByPlacerId(appointments, RequestOf(p).placerId)
                       ELSE {}]]
  /\ pc' = [pc EXCEPT ![p] = "write"]

\* lines 181-193: no Schedule was found, so createSchedule is called (its
\* INSERT fails on an id already there); or the first one found is taken and
\* the dedup lookup is called
SiuResolve(p, fails) ==
  LET l == local[p]
      draft == siuToFhirResources(RequestOf(p)).schedule
  IN
  /\ pc[p] = "resolve"
  /\ IF Len(l.existingSchedules) = 0
       THEN IF fails \/ ScheduleIdTaken(schedules, draft.id)
              THEN /\ RespondStoreError(p, "createSchedule")
                   /\ UNCHANGED schedules
              ELSE /\ schedules' = Append(schedules, draft)
                   /\ local' = [local EXCEPT ![p].scheduleId = draft.id]
                   /\ pc' = [pc EXCEPT ![p] = "lookup"]
       ELSE /\ IF fails
                 THEN RespondStoreError(p, "getAppointments")
                 ELSE LookedUp(p, [l EXCEPT !.scheduleId = l.existingSchedules[1].id])
            /\ UNCHANGED schedules
  /\ UNCHANGED <<clock, slots, appointments, slot_holds, nextId, result, hl7_message_log>>

\* lines 190-193 after createSchedule has returned
SiuLookup(p, fails) ==
  /\ pc[p] = "lookup"
  /\ IF fails
       THEN RespondStoreError(p, "getAppointments")
       ELSE LookedUp(p, local[p])
  /\ UNCHANGED <<clock, schedules, slots, appointments, slot_holds, nextId, result,
                 hl7_message_log>>

\* lines 195-204: updateAppointment is called and reads the row; or
\* createAppointment is called and inserts (the draft references no Slot),
\* and without a Slot draft the success acknowledgement follows
SiuWrite(p, fails) ==
  LET l == local[p]
      drafts == siuToFhirResources(RequestOf(p))
  IN
  /\ pc[p] = "write"
  /\ IF l.existingAppointment # {}
       THEN /\ IF fails \/ \A a \in l.existingAppointment :
                             getAppointmentById(appointments, a.id) = {}
                 THEN RespondStoreError(p, "getAppointmentById")
                 ELSE /\ pc' = [pc EXCEPT ![p] = "update"]
                      /\ UNCHANGED local
            /\ UNCHANGED <<appointments, nextId>>
     ELSE IF fails
       THEN /\ RespondStoreError(p, "createAppointment")
            /\ UNCHANGED <<appointments, nextId>>
     ELSE /\ Cardinality(appointments) < MaxAppts
          /\ appointments' = appointments \cup {NewAppointment(drafts.appointment, nextId)}
          /\ nextId' = nextId + 1
          /\ IF drafts.slot # {}
               THEN /\ pc' = [pc EXCEPT ![p] = "slot"]
                    /\ UNCHANGED local
               ELSE Respond(p, l, AcceptAck(RequestOf(p)))
  /\ UNCHANGED <<clock, schedules, slots, slot_holds, result, hl7_message_log>>

\* updateAppointment's UPDATE, then the success acknowledgement
SiuUpdate(p, fails) ==
  LET l == local[p] IN
  /\ pc[p] = "update"
  /\ IF fails
       THEN /\ RespondStoreError(p, "updateAppointment")
            /\ UNCHANGED appointments
       ELSE /\ appointments' = UpdateAppointmentRows(appointments,
                                 (CHOOSE a \in l.existingAppointment : TRUE).id,
                                 siuToFhirResources(RequestOf(p)).appointment)
            /\ Respond(p, l, AcceptAck(RequestOf(p)))
  /\ UNCHANGED <<clock, schedules, slots, slot_holds, nextId, result, hl7_message_log>>

\* lines 206-219: createSlot on the resolved Schedule, then the success
\* acknowledgement
SiuSlot(p, fails) ==
  LET l == local[p] IN
  /\ pc[p] = "slot"
  /\ IF fails
       THEN /\ RespondStoreError(p, "createSlot")
            /\ UNCHANGED <<slots, nextId>>
       ELSE /\ slots' = slots \cup
                 {[id |-> nextId, schedule_id |-> l.scheduleId, status |-> sl.status,
                   start |-> sl.start, end |-> sl.end] :
                    sl \in siuToFhirResources(RequestOf(p)).slot}
            /\ nextId' = nextId + 1
            /\ Respond(p, l, AcceptAck(RequestOf(p)))
  /\ UNCHANGED <<clock, schedules, appointments, slot_holds, result, hl7_message_log>>

InitSIURace ==
  /\ clock = 0
  /\ schedules = <<>>
  /\ slots = {}
  /\ appointments = {}
  /\ slot_holds = {}
  /\ hl7_message_log = {}
  /\ nextId = 1
  /\ result = NoCall
  /\ pc = [p \in Sessions |-> "idle"]
  /\ local = [p \in Sessions |-> IdleRequest]

SiuStep(p) ==
  \/ \E m \in Messages, fails \in BOOLEAN : SiuStart(p, m, fails)
  \/ \E fails \in BOOLEAN : SiuResolve(p, fails)
  \/ \E fails \in BOOLEAN : SiuLookup(p, fails)
  \/ \E fails \in BOOLEAN : SiuWrite(p, fails)
  \/ \E fails \in BOOLEAN : SiuUpdate(p, fails)
  \/ \E fails \in BOOLEAN : SiuSlot(p, fails)

NextSIURace == \E p \in Sessions : SiuStep(p)

\* no request is left waiting for ever on a store call that has returned
SpecSIURace ==
  InitSIURace /\ [][NextSIURace]_vars /\ \A p \in Sessions : WF_vars(SiuStep(p))

(***************************************************************************)
(* Deliveries one after another, each of whose store calls may throw: a    *)
(* sender that waits for the acknowledgement before it sends again         *)
(***************************************************************************)
\* a delivery arrives when no other is being handled
RetryStart(p, m, fails) ==
  /\ \A q \in Sessions \ {p} : pc[q] \in {"idle", "done"}
  /\ SiuStart(p, m, fails)

NextRetry ==
  \E p \in Sessions :
    \/ \E m \in Messages, fails \in BOOLEAN : RetryStart(p, m, fails)
    \/ \E fails \in BOOLEAN : SiuResolve(p, fails)
    \/ \E fails \in BOOLEAN : SiuLookup(p, fails)
    \/ \E fails \in BOOLEAN : SiuWrite(p, fails)
    \/ \E fails \in BOOLEAN : SiuUpdate(p, fails)
    \/ \E fails \in BOOLEAN : SiuSlot(p, fails)

SpecRetry == InitSIURace /\ [][NextRetry]_vars

(***************************************************************************)
(* Appointment operations of the store, each call running alone.  A draft  *)
(* lists its Slot references in order; the store walks them in that order. *)
(***************************************************************************)
SlotRefLists == {<<>>, <<101>>, <<102, 101>>}

AppointmentDrafts ==
  {[status |-> st, identifier |-> <<"1">>, start |-> 1, end |-> 2,
    participant |-> <<"1">>, slot |-> refs] :
     st \in {"booked", "cancelled"}, refs \in SlotRefLists}

\* ids a caller may name: every id the store can have issued, and one it never issues
AppointmentIdsNamed == 1..(MaxAppts + 1)

\* the references the loop gets through: all of them, or those before the
\* first one whose Slot is absent (updateSlot throws there)
FirstMissing(refs, tbl) ==
  IF \E i \in 1..Len(refs) : getSlotById(tbl, refs[i]) = {}
    THEN CHOOSE i \in 1..Len(refs) :
           /\ getSlotById(tbl, refs[i]) = {}
           /\ \A j \in 1..(i - 1) : getSlotById(tbl, refs[j]) # {}
    ELSE Len(refs) + 1

Walked(refs, tbl) == {refs[i] : i \in 1..(FirstMissing(refs, tbl) - 1)}

\* the loop leaving every Slot as it was
SetStatusRows_Noop(tbl, ids, status) == tbl

\* updateSlot(slotId, {status}) for each reference walked
SetStatusRows(tbl, ids, status) ==
  {IF s.id \in ids THEN [s EXCEPT !.status = status] ELSE s : s \in tbl}

\* createAppointment: the row is inserted, then the referenced Slots are set
\* busy one by one; a reference to an absent Slot throws at that point
CreateAppointment(draft) ==
  /\ nextId <= MaxAppts
  /\ appointments' = appointments \cup {NewAppointment(draft, nextId)}
  /\ slots' = SetStatusRows(slots, Walked(draft.slot, slots), "busy")
  /\ nextId' = nextId + 1
  /\ result' = [op |-> "createAppointment", id |-> nextId, draft |-> draft,
                outcome |-> IF FirstMissing(draft.slot, slots) > Len(draft.slot)
                              THEN "created" ELSE "SlotNotFound"]
  /\ UNCHANGED <<clock, schedules, slot_holds, pc, local, hl7_message_log>>

\* updateAppointment: throws when the row is absent, else writes its columns
UpdateAppointment(id, draft) ==
  /\ IF getAppointmentById(appointments, id) = {}
       THEN /\ UNCHANGED appointments
            /\ result' = [op |-> "updateAppointment", id |-> id, draft |-> draft,
                          outcome |-> "NotFound"]
       ELSE /\ appointments' = UpdateAppointmentRows(appointments, id, draft)
            /\ result' = [op |-> "updateAppointment", id |-> id, draft |-> draft,
                          outcome |-> "updated"]
  /\ UNCHANGED <<clock, schedules, slots, slot_holds, nextId, pc, local, hl7_message_log>>

\* deleteAppointment: the referenced Slots are set free one by one, then the
\* row is deleted; a reference to an absent Slot throws before the DELETE
DeleteAppointment(id) ==
  LET refs == IF getAppointmentById(appointments, id) = {} THEN <<>>
              ELSE (CHOOSE a \in getAppointmentById(appointments, id) : TRUE).slot
      done == FirstMissing(refs, slots) > Len(refs)
  IN
  /\ slots' = SetStatusRows(slots, Walked(refs, slots), "free")
  /\ appointments' = IF done THEN {a \in appointments : a.id # id} ELSE appointments
  /\ result' = [op |-> "deleteAppointment", id |-> id,
                outcome |-> IF done THEN "deleted" ELSE "SlotNotFound"]
  /\ UNCHANGED <<clock, schedules, slot_holds, nextId, pc, local, hl7_message_log>>

InitAppt ==
  /\ clock = 0
  /\ schedules = <<TheSchedule>>
  /\ slots = {}
  /\ appointments = {}
  /\ slot_holds = {}
  /\ hl7_message_log = {}
  /\ nextId = 1
  /\ result = NoCall
  /\ pc = [p \in Sessions |-> "idle"]
  /\ local = [p \in Sessions |-> IdleLocal]

NextAppt ==
  \/ \E id \in SlotIds, st \in SlotStatuses : CreateSlot(id, st, TheSchedule.id)
  \/ \E id \in SlotIds : DeleteSlot(id)
  \/ \E d \in AppointmentDrafts : CreateAppointment(d)
  \/ \E id \in AppointmentIdsNamed, d \in AppointmentDrafts : UpdateAppointment(id, d)
  \/ \E id \in AppointmentIdsNamed : DeleteAppointment(id)

SpecAppt == InitAppt /\ [][NextAppt]_vars

(***************************************************************************)
(* Slot operations of the store with the caller's start and end            *)
(***************************************************************************)
SlotTimes == {1, 2}

\* createSlot: the INSERT takes start and end as given; it fails on a
\* duplicate id and on a schedule that does not exist
CreateSlotAt(id, status, scheduleId, start, end) ==
  /\ getSlotById(slots, id) = {}
  /\ \E i \in 1..Len(schedules) : schedules[i].id = scheduleId
  /\ slots' = slots \cup {[id |-> id, schedule_id |-> scheduleId, status |-> status,
                           start |-> start, end |-> end]}
  /\ result' = NoCall
  /\ UNCHANGED <<clock, schedules, appointments, slot_holds, nextId, pc, local, hl7_message_log>>

\* updateSlot(id, {status, start, end}): throws when the slot is absent, else
\* writes the merged fields as given
UpdateSlotAt(id, status, start, end) ==
  /\ getSlotById(slots, id) # {}
  /\ slots' = {IF s.id = id
                 THEN [s EXCEPT !.status = status, !.start = start, !.end = end]
                 ELSE s : s \in slots}
  /\ result' = NoCall
  /\ UNCHANGED <<clock, schedules, appointments, slot_holds, nextId, pc, local, hl7_message_log>>

InitSlot ==
  /\ clock = 0
  /\ schedules = <<TheSchedule>>
  /\ slots = {}
  /\ appointments = {}
  /\ slot_holds = {}
  /\ hl7_message_log = {}
  /\ nextId = 1
  /\ result = NoCall
  /\ pc = [p \in Sessions |-> "idle"]
  /\ local = [p \in Sessions |-> IdleLocal]

NextSlot ==
  \/ \E id \in SlotIds, st \in SlotStatuses, a \in SlotTimes, b \in SlotTimes :
       CreateSlotAt(id, st, TheSchedule.id, a, b)
  \/ \E id \in SlotIds, st \in SlotStatuses, a \in SlotTimes, b \in SlotTimes :
       UpdateSlotAt(id, st, a, b)
  \/ \E id \in SlotIds : DeleteSlot(id)

SpecSlot == InitSlot /\ [][NextSlot]_vars

(***************************************************************************)
(* The booking workflow: a Slot is held, the Appointment is created, and   *)
(* the Appointment may later be deleted                                    *)
(***************************************************************************)
BookingDurations == {1000, 2000}

BookingDrafts == {d \in AppointmentDrafts : d.status = "booked" /\ Len(d.slot) > 0}

InitBook ==
  /\ clock = 0
  /\ schedules = <<TheSchedule>>
  /\ slots = {}
  /\ appointments = {}
  /\ slot_holds = {}
  /\ hl7_message_log = {}
  /\ nextId = 1
  /\ result = NoCall
  /\ pc = [p \in Sessions |-> "idle"]
  /\ local = [p \in Sessions |-> IdleLocal]

NextBook ==
  \/ Tick
  \/ \E id \in SlotIds : CreateSlot(id, "free", TheSchedule.id)
  \/ \E id \in SlotIds, s \in Sessions, d \in BookingDurations : HoldSlot(id, s, d)
  \/ \E d \in BookingDrafts : CreateAppointment(d)
  \/ \E id \in AppointmentIdsNamed : DeleteAppointment(id)

SpecBook == InitBook /\ [][NextBook]_vars

(***************************************************************************)
(* The HL7 message log of the store                                        *)
(***************************************************************************)
MsPerDay == 24 * 60 * 60 * MsPerSecond

RetentionDays == {0, 1}

\* what the caller hands to logHL7Message, received at the current second
LogEntries ==
  {[receivedAt |-> toNaiveISO(clock), source |-> "http", controlId |-> c, ackCode |-> a] :
     c \in {"MSG1", "MSG2"}, a \in {"AA", "AE"}}

\* logHL7Message: one row under a fresh id
LogHL7Message(entry) ==
  /\ nextId <= MaxLogs
  /\ hl7_message_log' = hl7_message_log \cup
       {[id |-> nextId, receivedAt |-> entry.receivedAt, source |-> entry.source,
         controlId |-> entry.controlId, ackCode |-> entry.ackCode]}
  /\ nextId' = nextId + 1
  /\ result' = [op |-> "log", id |-> nextId]
  /\ UNCHANGED <<clock, schedules, slots, appointments, slot_holds, pc, local>>

\* DELETE FROM hl7_message_log WHERE received_at < cutoff, the cutoff being
\* now less the retention
RetainedRows(log, nowMs, retentionDays) ==
  {e \in log : ~(e.receivedAt < toNaiveISO(nowMs - retentionDays * MsPerDay))}

CleanupHL7MessageLog(retentionDays) ==
  /\ hl7_message_log' = RetainedRows(hl7_message_log, clock, retentionDays)
  /\ result' = [op |-> "cleanupLog",
                changes |-> Cardinality(hl7_message_log)
                              - Cardinality(RetainedRows(hl7_message_log, clock, retentionDays))]
  /\ UNCHANGED <<clock, schedules, slots, appointments, slot_holds, nextId, pc, local>>

InitLog ==
  /\ clock = 0
  /\ schedules = <<>>
  /\ slots = {}
  /\ appointments = {}
  /\ slot_holds = {}
  /\ hl7_message_log = {}
  /\ nextId = 1
  /\ result = NoCall
  /\ pc = [p \in Sessions |-> "idle"]
  /\ local = [p \in Sessions |-> IdleLocal]

NextLog ==
  \/ Tick
  \/ \E e \in LogEntries : LogHL7Message(e)
  \/ \E d \in RetentionDays : CleanupHL7MessageLog(d)

SpecLog == InitLog /\ [][NextLog]_vars

(***************************************************************************)
(* The two routes as HTTP sees them: the handlers                          *)
(***************************************************************************)
\* POST /hl7/siu
HttpSIU(req, fails) ==
  SiuHandler(req.message, fails, [route |-> "/hl7/siu", request |-> req])

\* lines 338-361: the raw route's own parse-error acknowledgement
RawErrorAck == Ack(400, "AR", "UNKNOWN", "100", "error")

\* POST /hl7/raw
HttpRaw(req, fails) ==
  LET m == req.message IN
  IF ParseRawThrows(m)
    THEN /\ result' = HttpExchange("/hl7/raw", req, RawErrorAck, "parse",
                        sendAck(FALSE, buildACKMessage(RawErrorAck), 400))
         /\ UNCHANGED <<clock, schedules, slots, appointments, slot_holds, hl7_message_log,
                        nextId, pc, local>>
  ELSE IF parseRawMessage(m).messageType = "SIU"
    THEN SiuHandler(m, fails, [route |-> "/hl7/raw", request |-> req])
  ELSE /\ result' = HttpExchange("/hl7/raw", req, UnsupportedTypeAck(parseRawMessage(m)), "type",
                      sendAck(FALSE, buildACKMessage(UnsupportedTypeAck(parseRawMessage(m))), 400))
       /\ UNCHANGED <<clock, schedules, slots, appointments, slot_holds, hl7_message_log,
                      nextId, pc, local>>

InitHTTP ==
  /\ clock = 0
  /\ schedules = <<>>
  /\ slots = {}
  /\ appointments = {}
  /\ slot_holds = {}
  /\ hl7_message_log = {}
  /\ nextId = 1
  /\ result = NoCall
  /\ pc = [p \in Sessions |-> "idle"]
  /\ local = [p \in Sessions |-> IdleLocal]

NextHTTP ==
  \/ \E req \in SiuRequests, fails \in BOOLEAN : HttpSIU(req, fails)
  \/ \E req \in RawRequests, fails \in BOOLEAN : HttpRaw(req, fails)

SpecHTTP == InitHTTP /\ [][NextHTTP]_vars

(***************************************************************************)
(* HTTP Basic Auth: the onRequest hook.  A URL is a sequence of pieces of  *)
(* text, cut wherever a public prefix could end.                           *)
(***************************************************************************)
PUBLIC_PATH_PREFIXES == {<<"/health">>, <<"/docs">>, <<"/demo">>, <<"/scheduler", "/">>}

PUBLIC_EXACT_PATHS == {<<"/">>, <<"/health">>}

Paths ==
  {<<"/">>, <<"/health">>, <<"/health", "z">>, <<"/health", "/", "live">>,
   <<"/docs">>, <<"/docs", "/", "json">>, <<"/docs", "-internal">>,
   <<"/demo">>, <<"/demo", "/", "app.js">>, <<"/demo", "graphics">>,
   <<"/scheduler">>, <<"/scheduler", "/">>, <<"/scheduler", "/", "book">>,
   <<"/hl7/siu">>, <<"/Appointment">>}

Urls == Paths \cup {p \o <<"?", "next=">> \o q : p \in Paths, q \in {<<"/health">>}}

StartsWith(path, prefix) ==
  /\ Len(path) >= Len(prefix)
  /\ SubSeq(path, 1, Len(prefix)) = prefix

\* url.split('?')[0]
StripQuery(url) ==
  IF \E i \in 1..Len(url) : url[i] = "?"
    THEN SubSeq(url, 1, (CHOOSE i \in 1..Len(url) :
                           url[i] = "?" /\ \A j \in 1..(i - 1) : url[j] # "?") - 1)
    ELSE url

isPublicPath(url) ==
  \/ StripQuery(url) \in PUBLIC_EXACT_PATHS
  \/ \E prefix \in PUBLIC_PATH_PREFIXES : StartsWith(StripQuery(url), prefix)

\* the Authorization header: absent, or a scheme and what the base64 text
\* decodes to
NoHeader == [present |-> FALSE]

AuthHeaders ==
  {NoHeader} \cup
  {[present |-> TRUE, scheme |-> sc, colon |-> c, username |-> u, password |-> pw] :
     sc \in {"Basic", "Bearer"}, c \in BOOLEAN, u \in {"admin", "guest"},
     pw \in {"secret", "guess"}}

validateBasicAuth(authHeader, expectedUsername, expectedPassword) ==
  /\ authHeader.present
  /\ authHeader.scheme = "Basic"
  /\ authHeader.colon
  /\ authHeader.username = expectedUsername
  /\ authHeader.password = expectedPassword

\* AUTH_USERNAME and AUTH_PASSWORD of a server that has both set
AUTH_USERNAME == "admin"

AUTH_PASSWORD == "secret"

\* what became of a request: the hook answered it, or it went on to routing
Answered401(url, authHeader, contentType, configured) ==
  [op |-> "request", url |-> url, authorization |-> authHeader, configured |-> configured,
   status |-> 401, routed |-> FALSE,
   body |-> IF contentType \in {"text/plain", "x-application/hl7-v2+er7"}
              THEN "Authentication required" ELSE "{error}"]

Routed(url, authHeader, configured) ==
  [op |-> "request", url |-> url, authorization |-> authHeader, configured |-> configured,
   status |-> 0, routed |-> TRUE, body |-> ""]

\* a request arriving at a server started with or without the credentials
\* set; without them registerBasicAuth installs no hook
OnRequest(url, authHeader, contentType, configured) ==
  /\ result' =
       IF ~configured THEN Routed(url, authHeader, configured)
       ELSE IF isPublicPath(url) THEN Routed(url, authHeader, configured)
       ELSE IF ~validateBasicAuth(authHeader, AUTH_USERNAME, AUTH_PASSWORD)
         THEN Answered401(url, authHeader, contentType, configured)
       ELSE Routed(url, authHeader, configured)
  /\ UNCHANGED <<clock, schedules, slots, appointments, slot_holds, hl7_message_log,
                 nextId, pc, local>>

InitAuth ==
  /\ clock = 0
  /\ schedules = <<>>
  /\ slots = {}
  /\ appointments = {}
  /\ slot_holds = {}
  /\ hl7_message_log = {}
  /\ nextId = 1
  /\ result = NoCall
  /\ pc = [p \in Sessions |-> "idle"]
  /\ local = [p \in Sessions |-> IdleLocal]

NextAuth ==
  \E url \in Urls, h \in AuthHeaders,
     ct \in {"application/json", "text/plain", "x-application/hl7-v2+er7"},
     configured \in BOOLEAN :
    OnRequest(url, h, ct, configured)

SpecAuth == InitAuth /\ [][NextAuth]_vars

(***************************************************************************)
(* Properties of the slot-hold manager, calls running one after another    *)
(***************************************************************************)
Unexpired(h) == h.expiresAt > toNaiveISO(clock)

HoldIds(holds) == {h.id : h \in holds}

HeldBy(slotId, sessionId) ==
  {h \in slot_holds : h.slotId = slotId /\ h.sessionId = sessionId /\ Unexpired(h)}

IsFree(slotId) == \E s \in slots : s.id = slotId /\ s.status = "free"

\* C2: in every state reached by hold, release, sweep and clock steps that do
\* not overlap, each Slot has at most one hold that has not expired.
C2_AtMostOneActiveHold ==
  \A s \in SlotIds : Cardinality({h \in slot_holds : h.slotId = s /\ Unexpired(h)}) <= 1

\* a second hold was inserted on a Slot after its first one expired, and is active
C2_Witness ==
  \E h \in slot_holds : Unexpired(h) /\ h.id = 2 /\ h.createdAt > 0

\* C4 as stated: whenever a Slot has an unexpired hold of session a, a hold
\* call on it by another session b fails with HoldConflict, inserts no row and
\* leaves a's hold as it was.
C4_ConflictWheneverHeld ==
  [][\A s \in SlotIds, a \in Sessions :
       (/\ HeldBy(s, a) # {}
        /\ result'.op = "hold"
        /\ result'.slotId = s
        /\ result'.sessionId # a)
       => /\ result'.outcome = "HoldConflict"
          /\ HoldIds(slot_holds') \subseteq HoldIds(slot_holds)
          /\ HeldBy(s, a) \subseteq slot_holds']_vars

\* C4 amended: the same, for a Slot whose status is free.
C4_ConflictWhenHeldAndFree ==
  [][\A s \in SlotIds, a \in Sessions :
       (/\ HeldBy(s, a) # {}
        /\ IsFree(s)
        /\ result'.op = "hold"
        /\ result'.slotId = s
        /\ result'.sessionId # a)
       => /\ result'.outcome = "HoldConflict"
          /\ HoldIds(slot_holds') \subseteq HoldIds(slot_holds)
          /\ HeldBy(s, a) \subseteq slot_holds']_vars

\* a call has just failed with HoldConflict and the other session's hold is there
C4_Witness ==
  /\ result.op = "hold"
  /\ result.outcome = "HoldConflict"
  /\ \E h \in slot_holds :
       h.slotId = result.slotId /\ h.sessionId # result.sessionId /\ Unexpired(h)

\* C5 as stated: whenever a Slot has an unexpired hold of session a, a further
\* hold call on it by a succeeds: the Slot keeps one hold row, with the same id
\* and token, and its expiry is now + the duration of the call.
C5_ExtendWheneverHeld ==
  [][\A s \in SlotIds, a \in Sessions :
       (/\ HeldBy(s, a) # {}
        /\ result'.op = "hold"
        /\ result'.slotId = s
        /\ result'.sessionId = a)
       => /\ result'.outcome = "extended"
          /\ \A h \in HeldBy(s, a) :
               {g \in slot_holds' : g.slotId = s} =
                 {[h EXCEPT !.expiresAt = toNaiveISO(clock + result'.durationMs)]}]_vars

\* C5 amended: the same, for a Slot whose status is free.
C5_ExtendWhenHeldAndFree ==
  [][\A s \in SlotIds, a \in Sessions :
       (/\ HeldBy(s, a) # {}
        /\ IsFree(s)
        /\ result'.op = "hold"
        /\ result'.slotId = s
        /\ result'.sessionId = a)
       => /\ result'.outcome = "extended"
          /\ \A h \in HeldBy(s, a) :
               {g \in slot_holds' : g.slotId = s} =
                 {[h EXCEPT !.expiresAt = toNaiveISO(clock + result'.durationMs)]}]_vars

\* a hold has just been extended to a later expiry than it was created with
C5_Witness ==
  /\ result.op = "hold"
  /\ result.outcome = "extended"
  /\ \E h \in slot_holds :
       /\ h.slotId = result.slotId
       /\ h.expiresAt = toNaiveISO(clock + result.durationMs)
       /\ h.createdAt < toNaiveISO(clock)

\* C6: a hold call on a Slot that does not exist fails with NotFound, one on a
\* Slot whose status is not free fails with SlotUnavailable, and neither
\* inserts a hold row nor changes the expiry of one.
C6_NotFoundUnavailable ==
  [][(result'.op = "hold" /\ ~IsFree(result'.slotId))
       => /\ result'.outcome =
               IF getSlotById(slots, result'.slotId) = {} THEN "NotFound" ELSE "SlotUnavailable"
          /\ slot_holds' \subseteq slot_holds]_vars

\* a call on a Slot that is held but no longer free has just failed
C6_Witness ==
  /\ result.op = "hold"
  /\ result.outcome = "SlotUnavailable"
  /\ \E h \in slot_holds : h.slotId = result.slotId /\ Unexpired(h)

\* C7: release(token) never fails; afterwards no row has the token, every
\* other row is as before, and releasing the token again changes nothing.
C7_ReleaseIdempotent ==
  [][result'.op = "release"
       => /\ result'.outcome = "ok"
          /\ slot_holds' = {h \in slot_holds : h.holdToken # result'.token}
          /\ ReleaseRows(slot_holds', result'.token) = slot_holds']_vars

\* a token that had been issued was released, and another hold is still there
C7_Witness ==
  /\ result.op = "release"
  /\ result.token < nextId
  /\ slot_holds # {}

\* C8 as stated: every hold row has expiresAt strictly after createdAt,
\* whatever duration it was created or extended with.
C8_ExpiresAfterCreated ==
  \A h \in slot_holds : h.expiresAt > h.createdAt

\* C9: activeHold never returns a hold whose expiry is at or before now.
C9_ActiveHoldNotExpired ==
  result.op = "activeHold" => \A h \in result.hold : ~(h.expiresAt <= toNaiveISO(clock))

\* activeHold has just answered "none" for a Slot whose hold expired and is
\* still in the store
C9_Witness ==
  /\ result.op = "activeHold"
  /\ result.hold = {}
  /\ \E h \in slot_holds :
       h.slotId = result.slotId /\ h.createdAt < h.expiresAt /\ h.expiresAt <= toNaiveISO(clock)

\* C27 as stated: when a hold call has returned or failed, no hold row of any
\* Slot has an expiry at or before the time of the call.
C27_NoExpiredRowAfterHold ==
  [][result'.op = "hold"
       => \A h \in slot_holds' : ~(h.expiresAt <= toNaiveISO(clock))]_vars

\* the rows a step removed or changed
Touched == slot_holds \ slot_holds'

\* C28: a hold call and a sweep leave every unexpired hold of another Slot or
\* another session as it was; a release leaves every hold of another token as
\* it was; a row is changed only by a hold call of its own session on its own
\* Slot, which keeps its id, token, session and Slot; and a row goes only by a
\* hold call, a sweep, a release, or the deletion of its Slot.
C28_HoldsTouchedOnlyByOwner ==
  [][/\ result'.op = "hold"
          => \A h \in slot_holds :
               (Unexpired(h) /\ (h.slotId # result'.slotId \/ h.sessionId # result'.sessionId))
                 => h \in slot_holds'
     /\ result'.op = "sweep" => \A h \in slot_holds : Unexpired(h) => h \in slot_holds'
     /\ result'.op = "release"
          => \A h \in slot_holds : h.holdToken # result'.token => h \in slot_holds'
     /\ \A h \in Touched :
          \/ /\ result'.op = "hold"
             /\ result'.outcome = "extended"
             /\ h.slotId = result'.slotId
             /\ h.sessionId = result'.sessionId
             /\ \E g \in slot_holds' : [g EXCEPT !.expiresAt = h.expiresAt] = h
          \/ /\ h.id \notin HoldIds(slot_holds')
             /\ \/ result'.op = "hold" /\ ~Unexpired(h)
                \/ result'.op = "sweep" /\ ~Unexpired(h)
                \/ result'.op = "release" /\ result'.token = h.holdToken
                \/ getSlotById(slots', h.slotId) = {}]_vars

\* a session has just extended its hold while the other session's unexpired
\* hold on the other Slot stayed
C28_Witness ==
  /\ result.op = "hold"
  /\ result.outcome = "extended"
  /\ \E h \in slot_holds :
       h.slotId # result.slotId /\ h.sessionId # result.sessionId /\ Unexpired(h)

\* C29: the passing of time removes no hold row (a row goes only in a step
\* that is a hold call, a sweep, a release or the deletion of its Slot); and
\* when a free Slot has only an expired hold, of session a, a hold call on it
\* by another session returns a new hold and the expired row is gone.
C29_ExpiryEnforcedAtNextAccess ==
  [][/\ result'.op \notin {"hold", "sweep", "release"}
          => \A h \in slot_holds : h \in slot_holds' \/ getSlotById(slots', h.slotId) = {}
     /\ \A h \in slot_holds :
          (/\ ~Unexpired(h)
           /\ IsFree(h.slotId)
           /\ result'.op = "hold"
           /\ result'.slotId = h.slotId
           /\ result'.sessionId # h.sessionId)
          => /\ result'.outcome = "created"
             /\ h.id \notin HoldIds(slot_holds')]_vars

\* a hold stayed in the store past its expiry, and the other session then got
\* a hold on that Slot: the second row is there and the first is gone
C29_Witness ==
  /\ result.op = "hold"
  /\ result.outcome = "created"
  /\ HoldIds(slot_holds) = {2}
  /\ \E h \in result.hold : h.createdAt > 0 /\ h.id = 2 /\ h.sessionId = "B"

(***************************************************************************)
(* Properties of holdSlot calls that overlap                               *)
(***************************************************************************)
\* C3 as stated: when the two sessions' calls on the same free Slot have both
\* ended, whatever their interleaving, one has succeeded and the other has
\* failed with HoldConflict, and at most one hold row has been inserted.
C3_OneSuccessOneConflict ==
  (/\ \A p \in Sessions : pc[p] = "done"
   /\ \E s \in SlotIds : IsFree(s) /\ \A p \in Sessions : local[p].slotId = s)
  => /\ \E p \in Sessions :
          /\ local[p].outcome = "created"
          /\ \A q \in Sessions \ {p} : local[q].outcome = "HoldConflict"
     /\ Cardinality(slot_holds) <= 1

(***************************************************************************)
(* Properties of POST /hl7/siu, requests running one after another         *)
(***************************************************************************)
Carrying(tbl, identifier) == {a \in tbl : a.identifier = identifier}

AppointmentIds(tbl) == {a.id : a \in tbl}

\* C1 as stated: every delivery of a well-formed SIU message is answered
\* Accepted and leaves exactly one Appointment row carrying its placer
\* identifier; when a row carried the identifier before, that row (same id)
\* is updated and no row is inserted.
C1_OneRowPerIdentifier ==
  [][(result'.op = "siu" /\ result'.request \in ValidMessages)
       => LET id == result'.request.placerId
          IN /\ result'.ack.ackCode = "AA"
             /\ Cardinality(Carrying(appointments', id)) = 1
             /\ Carrying(appointments, id) # {}
                  => /\ AppointmentIds(appointments') = AppointmentIds(appointments)
                     /\ AppointmentIds(Carrying(appointments', id))
                          = AppointmentIds(Carrying(appointments, id))]_vars

\* C10: a message without header segment, or one that fails parsing or
\* validation, is answered Rejected (AR) and writes nothing: Schedules, Slots,
\* Appointments and holds stay as they were.
C10_MalformedRejectedNoWrites ==
  [][(/\ result'.op = "siu"
      /\ \/ ~result'.request.hasMSH
         \/ (result'.request.messageType = "SIU" /\ ~result'.request.hasSCH))
       => /\ result'.ack.ackCode = "AR"
          /\ UNCHANGED <<schedules, slots, appointments, slot_holds>>]_vars

\* a message without header was just rejected by a store that has rows to lose
C10_Witness ==
  /\ result.op = "siu"
  /\ ~result.request.hasMSH
  /\ result.ack.ackCode = "AR"
  /\ appointments # {}
  /\ slots # {}

\* the acknowledgement codes that refuse a message
NegativeAckCodes == {"AR", "AE"}

C12_UnsupportedTriggerNoWrites ==
  [][(/\ result'.op = "siu"
      /\ result'.request.hasMSH
      /\ result'.request.messageType = "SIU"
      /\ result'.request.triggerEvent \notin SupportedTriggers)
       => /\ result'.ack.ackCode \in NegativeAckCodes
          /\ result'.ack.status # 200
          /\ UNCHANGED <<schedules, slots, appointments, slot_holds>>]_vars

\* an SIU^S99 message carrying a placer ID the store knows was just refused
C12_Witness ==
  /\ result.op = "siu"
  /\ result.request.messageType = "SIU"
  /\ result.request.hasSCH
  /\ result.request.triggerEvent \notin SupportedTriggers
  /\ result.ack.ackCode \in NegativeAckCodes
  /\ Carrying(appointments, result.request.placerId) # {}

\* C13 as stated: a well-formed new-appointment (S12) message whose placer ID
\* no stored Appointment carries is answered Accepted with the message's own
\* control ID; afterwards exactly one Appointment carries the placer ID, and a
\* Slot of the message's start and end with status busy has been created.
C13_NewAppointmentStored ==
  [][(/\ result'.op = "siu"
      /\ result'.request \in ValidMessages
      /\ result'.request.triggerEvent = "S12"
      /\ Carrying(appointments, result'.request.placerId) = {})
       => /\ result'.ack.ackCode = "AA"
          /\ result'.ack.controlId = result'.request.controlId
          /\ Cardinality(Carrying(appointments', result'.request.placerId)) = 1
          /\ \E sl \in slots' \ slots :
               /\ sl.status = "busy"
               /\ sl.start = result'.request.start
               /\ sl.end = result'.request.end]_vars

\* C16 as stated: the acknowledgement of a message whose header parses carries
\* that message's control ID, also when the SIU body fails validation; the
\* sentinel UNKNOWN is sent only when the header could not be parsed.
C16_ControlIdEchoed ==
  [][result'.op = "siu"
       => /\ result'.request.hasMSH => result'.ack.controlId = result'.request.controlId
          /\ result'.ack.controlId = "UNKNOWN" => ~result'.request.hasMSH]_vars

\* the two kinds of failure: no header segment (tokenization), and a header
\* that parses over an SIU body that fails validation
TokenizationFailure(m) == ~m.hasMSH

ValidationFailure(m) ==
  /\ m.hasMSH
  /\ m.messageType = "SIU"
  /\ ~m.hasSCH \/ m.triggerEvent \notin SupportedTriggers

\* C17 as stated: when a message that fails tokenization and a message that
\* fails validation are answered one after the other, both acknowledgements
\* are Rejected and their structured error codes differ.
C17_DistinctErrorCodes ==
  [][(/\ result.op = "siu"
      /\ result'.op = "siu"
      /\ TokenizationFailure(result.request)
      /\ ValidationFailure(result'.request))
       => /\ result.ack.ackCode = "AR"
          /\ result'.ack.ackCode = "AR"
          /\ result.ack.errCode # result'.ack.errCode]_vars

\* C26 as stated: the HTTP status of a response fixes the acknowledgement
\* code it carries: 200 carries AA, 400 carries AR, 500 carries AE.
C26_StatusFixesAckCode ==
  [][result'.op = "siu"
       => /\ result'.ack.status = 200 => result'.ack.ackCode = "AA"
          /\ result'.ack.status = 400 => result'.ack.ackCode = "AR"
          /\ result'.ack.status = 500 => result'.ack.ackCode = "AE"]_vars

(***************************************************************************)
(* Properties of POST /hl7/siu, requests overlapping and store calls       *)
(* failing                                                                 *)
(***************************************************************************)
\* C15 as stated: in every state, also those reached by two deliveries that
\* interleave at their store calls, at most one Appointment carries a given
\* external identifier.
C15_AtMostOnePerIdentifier ==
  \A id \in PlacerIds : Cardinality(Carrying(appointments, id)) <= 1

\* C18: a request whose message parsed and converted and one of whose store
\* calls threw is answered AE under HTTP status 500, with the message's own
\* control ID and the error's message; so never AR and never AA.
C18_StoreFailureIsAE ==
  \A p \in Sessions :
    (pc[p] = "done" /\ local[p].failed # "none")
      => local[p].ack = {Ack(500, "AE", RequestOf(p).controlId, "207",
                             StoreErrorMessage(local[p].failed))}

\* createSlot threw after the Appointment had been written, and the request
\* was answered AE
C18_Witness ==
  \E p \in Sessions :
    /\ pc[p] = "done"
    /\ local[p].failed = "createSlot"
    /\ \E a \in local[p].ack : a.ackCode = "AE"
    /\ Carrying(appointments, RequestOf(p).placerId) # {}
    /\ slots = {}

AckCodes == {"AA", "AR", "AE"}

\* C19: a request has no acknowledgement while it is being handled and one
\* acknowledgement, of code AA, AR or AE, once it has ended; and every request
\* that has arrived ends, whatever the branch it takes.
C19_AlwaysAcknowledged ==
  \A p \in Sessions :
    /\ [](IF pc[p] = "done"
            THEN Cardinality(local[p].ack) = 1 /\ \A a \in local[p].ack : a.ackCode \in AckCodes
            ELSE local[p].ack = {})
    /\ (pc[p] # "idle") ~> (pc[p] = "done")

\* one request has ended on a store failure and another on acceptance after
\* an update
C19_Witness ==
  \E p, q \in Sessions :
    /\ pc[p] = "done" /\ local[p].failed = "updateAppointment"
    /\ pc[q] = "done" /\ \E a \in local[q].ack : a.ackCode = "AA"

\* C22: in every state, also those reached by deliveries that interleave at
\* their store calls, no two Schedules have the same actor; and a delivery
\* whose lookup found Schedules creates none and goes on with the first found.
C22_OneSchedulePerActor ==
  /\ [](\A i, j \in 1..Len(schedules) : schedules[i].actor = schedules[j].actor => i = j)
  /\ [][\A p \in Sessions :
          (/\ pc[p] = "resolve"
           /\ pc'[p] # "resolve"
           /\ Len(local[p].existingSchedules) > 0)
          => /\ schedules' = schedules
             /\ pc'[p] = "write" => local'[p].scheduleId = local[p].existingSchedules[1].id]_vars

\* two first-time bookings for one actor overlapped: both lookups found no
\* Schedule, one request created it and the other has ended
C22_Witness ==
  \E p, q \in Sessions :
    /\ p # q
    /\ pc[p] \notin {"idle", "resolve"}
    /\ pc[q] = "done"
    /\ local[q].failed = "createSchedule"
    /\ local[p].existingSchedules = <<>>
    /\ local[q].existingSchedules = <<>>
    /\ RequestOf(p).actor = RequestOf(q).actor
    /\ Len(schedules) = 1

(***************************************************************************)
(* Properties of the store's Appointment operations                        *)
(***************************************************************************)
\* the fields of a draft, read from a stored row
DraftOf(a) ==
  [status |-> a.status, identifier |-> a.identifier, start |-> a.start, end |-> a.end,
   participant |-> a.participant, slot |-> a.slot]

\* C14 as stated: after an update of a stored Appointment with a later draft,
\* the row agrees with that draft on every field: status, timing,
\* participants, identifier and Slot references.
C14_RowMatchesLastDraft ==
  [][(result'.op = "updateAppointment" /\ result'.outcome = "updated")
       => \A a \in getAppointmentById(appointments', result'.id) :
            DraftOf(a) = result'.draft]_vars

\* C20: when createAppointment returns, every Slot its draft references is in
\* the store with status busy, and every other Slot is as it was.
C20_ReferencedSlotsBusy ==
  [][(result'.op = "createAppointment" /\ result'.outcome = "created")
       => /\ \A i \in 1..Len(result'.draft.slot) :
               \E sl \in slots' : sl.id = result'.draft.slot[i] /\ sl.status = "busy"
          /\ \A sl \in slots :
               (\A i \in 1..Len(result'.draft.slot) : sl.id # result'.draft.slot[i])
                 => sl \in slots']_vars

\* an Appointment referencing two Slots was just created, and both are busy
C20_Witness ==
  /\ result.op = "createAppointment"
  /\ result.outcome = "created"
  /\ Len(result.draft.slot) = 2
  /\ \A sl \in slots : sl.status = "busy"
  /\ Cardinality(slots) = 2

\* the Slots a stored Appointment references
SlotsReferencedBy(tbl, id) ==
  UNION {{a.slot[i] : i \in 1..Len(a.slot)} : a \in getAppointmentById(tbl, id)}

\* C21 as stated: when an Appointment that references Slots has been deleted,
\* or has been cancelled through an update, each Slot it referenced that is
\* in the store has status free.
C21_DeleteOrCancelFreesSlots ==
  [][(\/ result'.op = "deleteAppointment" /\ result'.outcome = "deleted"
      \/ /\ result'.op = "updateAppointment"
         /\ result'.outcome = "updated"
         /\ result'.draft.status = "cancelled")
       => \A sl \in slots' :
            sl.id \in SlotsReferencedBy(appointments, result'.id) => sl.status = "free"]_vars

(***************************************************************************)
(* Properties of the store's Slot operations                               *)
(***************************************************************************)
\* C25 as stated: after any sequence of slot creations and updates, every
\* Slot in the store has its start strictly before its end.
C25_SlotStartBeforeEnd ==
  \A s \in slots : s.start < s.end

(***************************************************************************)
(* Properties of the message log                                           *)
(***************************************************************************)
\* C24 as stated: a row of the message log, once written, stays as it is: no
\* operation of the store changes or removes it.
C24_LogAppendOnly ==
  [][hl7_message_log \subseteq hl7_message_log']_vars

(***************************************************************************)
(* Properties of the MLLP framer                                           *)
(***************************************************************************)
\* C23: unframing the frame of a valid message gives the message back.
C23_RoundTrip ==
  (result.op = "unframe" /\ ValidMessage(result.message))
    => result.out = [message |-> result.message]

\* a valid message of two segments went through frame and unframe
C23_Witness ==
  /\ result.op = "unframe"
  /\ ValidMessage(result.message)
  /\ result.message = <<77, CR, 77>>
  /\ result.bytes = <<SB, 77, CR, 77, EB, CR>>
  /\ result.out = [message |-> result.message]

(***************************************************************************)
(* Properties of the booking workflow                                      *)
(***************************************************************************)
\* the Slot is busy, an Appointment references it and the hold taken before
\* the booking is still unexpired
BookedWhileHeld(id) ==
  /\ \E s \in getSlotById(slots, id) : s.status = "busy"
  /\ \E a \in appointments : \E i \in 1..Len(a.slot) : a.slot[i] = id
  /\ \E h \in slot_holds : h.slotId = id /\ Unexpired(h)

\* holdSlot on the Slot takes the 'is not available' branch
HoldWouldBeRefused(id) ==
  /\ getSlotById(slots, id) # {}
  /\ ~SlotIsFree(getSlotById(slots, id))

Booked(id) ==
  /\ \E s \in getSlotById(slots, id) : s.status = "busy"
  /\ \E a \in appointments : \E i \in 1..Len(a.slot) : a.slot[i] = id

C31_RawRelaysSiuAck ==
  (/\ result.op = "http"
   /\ result.route = "/hl7/raw"
   /\ ~ParseRawThrows(result.request.message)
   /\ parseRawMessage(result.request.message).messageType = "SIU")
    => /\ result.response.status = result.ack.status
       /\ result.response.body = buildACKMessage(result.ack)

\* C40: the acknowledgement of /hl7/siu is framed exactly when the request
\* is a JSON envelope with wrapMLLP true, on every outcome.
ResponseText(response) ==
  IF response.contentType = "application/json" THEN response.body.message ELSE response.body

C40_FramedIffRequested ==
  (result.op = "http" /\ result.route = "/hl7/siu")
    => ((unframe(ResponseText(result.response)) # FramingError)
          <=> (result.request.json /\ result.request.wrapMLLP))

(***************************************************************************)
(* Properties of the Basic Auth hook                                       *)
(***************************************************************************)
\* the paths the hook is meant to leave open: the listed ones, and what lies
\* below a listed one
ListedPublic(path) ==
  \/ path \in {<<"/">>, <<"/health">>, <<"/docs">>, <<"/demo">>}
  \/ \E base \in {<<"/health">>, <<"/docs">>, <<"/demo">>, <<"/scheduler">>} :
       StartsWith(path, base \o <<"/">>)

ValidCredentials(h) ==
  /\ h.present
  /\ h.scheme = "Basic"
  /\ h.colon
  /\ h.username = AUTH_USERNAME
  /\ h.password = AUTH_PASSWORD

\* C32: with Basic Auth configured, a request without valid credentials to a
\* path that is not one of the public paths is answered 401 and reaches no
\* route handler; sharing a prefix with a public path does not make a path
\* public.
C32_OnlyListedPathsPublic ==
  (/\ result.op = "request"
   /\ result.configured
   /\ ~ValidCredentials(result.authorization)
   /\ ~ListedPublic(StripQuery(result.url)))
    => (result.status = 401 /\ ~result.routed)

(***************************************************************************)
(* Properties of the two lookups of reconciliation                         *)
(***************************************************************************)
\* C33: a delivery with placer ID X leaves every Appointment whose identifier
\* is not exactly X as it was, and when no Appointment carries exactly X it
\* creates one for X.
C33_DedupLookupExact ==
  [][(result'.op = "siu" /\ result'.request \in ValidMessages)
       => LET X == result'.request.placerId
          IN /\ \A a \in appointments : a.identifier # X => a \in appointments'
             /\ Carrying(appointments, X) = {}
                  => \E a \in appointments' :
                       a.identifier = X /\ a.id \notin AppointmentIds(appointments)]_vars

\* the Schedules owned by exactly this actor
OwnedBy(tbl, actor) == {i \in 1..Len(tbl) : tbl[i].actor = actor}

\* C34: when a delivery creates a Slot for a new appointment, the Slot hangs
\* on a Schedule owned by exactly the message's actor, and when no Schedule
\* was owned by exactly that actor one is created for it.
C34_ScheduleResolutionExact ==
  [][(result'.op = "siu" /\ result'.request \in ValidMessages /\ slots' # slots)
       => LET actor == result'.request.actor
          IN /\ \A sl \in slots' \ slots :
                  \E i \in OwnedBy(schedules', actor) : schedules'[i].id = sl.schedule_id
             /\ OwnedBy(schedules, actor) = {} => OwnedBy(schedules', actor) # {}]_vars

(***************************************************************************)
(* Properties of re-sending after a store failure                          *)
(***************************************************************************)
\* C35: when a delivery was answered AE because a store call threw, and the
\* same message is sent again and accepted, the store then holds what one
\* successful delivery gives: one Appointment with the identifier, and its
\* Slot when the message makes one.
C35_ResendRepairs ==
  [][\A p, q \in Sessions :
       (/\ p # q
        /\ pc[p] = "done"
        /\ local[p].failed # "none"
        /\ pc[q] # "done"
        /\ pc'[q] = "done"
        /\ \E a \in local'[q].ack : a.ackCode = "AA"
        /\ RequestOf(q) = RequestOf(p))
       => LET m == RequestOf(p)
          IN /\ Cardinality(Carrying(appointments', m.placerId)) = 1
             /\ MakesSlot(m.triggerEvent)
                  => \E sl \in slots' : sl.start = m.start /\ sl.end = m.end]_vars

(***************************************************************************)
(* Properties of the appointment operations when a call throws, and when   *)
(* Appointments share a Slot                                               *)
(***************************************************************************)
\* C36: a createAppointment call that throws has inserted no Appointment row
\* and changed no Slot.
C36_CreateAllOrNothing ==
  [][(result'.op = "createAppointment" /\ result'.outcome # "created")
       => (appointments' = appointments /\ slots' = slots)]_vars

\* C37: after deleteAppointment(id) on a stored Appointment the Appointment
\* is gone from the store, also when a Slot it references has been deleted.
C37_DeleteRemovesAppointment ==
  [][(result'.op = "deleteAppointment" /\ getAppointmentById(appointments, result'.id) # {})
       => getAppointmentById(appointments', result'.id) = {}]_vars

\* the Slots referenced by the stored Appointments
SlotsReferenced(tbl) == UNION {{a.slot[i] : i \in 1..Len(a.slot)} : a \in tbl}

\* C38: a busy Slot that a stored Appointment still references after a
\* deleteAppointment call has returned is still busy: deleting one of two
\* Appointments on the same Slot does not free the Slot.
C38_SharedSlotStaysBusy ==
  [][(result'.op = "deleteAppointment" /\ result'.outcome = "deleted")
       => \A sl \in slots :
            (sl.status = "busy" /\ sl.id \in SlotsReferenced(appointments'))
              => sl \in slots']_vars

(***************************************************************************)
(* Properties of the same-session re-hold                                  *)
(***************************************************************************)
\* C39 as stated: a hold call by the owner of an unexpired hold never leaves
\* the hold with an earlier expiry than it had, whatever the duration.
C39_RenewNeverEarlier ==
  [][\A s \in SlotIds, a \in Sessions :
       (/\ HeldBy(s, a) # {}
        /\ result'.op = "hold"
        /\ result'.slotId = s
        /\ result'.sessionId = a)
       => \A h \in HeldBy(s, a) :
            \E g \in slot_holds' : g.id = h.id /\ g.expiresAt >= h.expiresAt]_vars

\* C39 amended: the same, for a duration that reaches at least to the
\* hold's present expiry (now + duration is not before it); a call that is
\* refused leaves the hold as it was.
C39_RenewNotEarlierWhenLongEnough ==
  [][\A s \in SlotIds, a \in Sessions :
       (/\ HeldBy(s, a) # {}
        /\ result'.op = "hold"
        /\ result'.slotId = s
        /\ result'.sessionId = a)
       => \A h \in HeldBy(s, a) :
            IF result'.outcome = "extended"
              THEN (h.expiresAt * MsPerSecond <= clock + result'.durationMs)
                     => \E g \in slot_holds' : g.id = h.id /\ g.expiresAt >= h.expiresAt
              ELSE h \in slot_holds']_vars

\* the owner has just re-held a free Slot, some time after taking the hold,
\* for the longest duration: the expiry is as late as one can be
C39_Witness ==
  /\ result.op = "hold"
  /\ result.outcome = "extended"
  /\ result.durationMs = 2000
  /\ clock > 0
  /\ \E h \in slot_holds :
       /\ h.slotId = result.slotId
       /\ h.sessionId = result.sessionId
       /\ h.createdAt < toNaiveISO(clock)
       /\ h.expiresAt = toNaiveISO(clock + 2000)

====
